---- MODULE Spec2Model ----
(***************************************************************************)
(* get_arguments() of src/args.py: an ArgumentParser with six store        *)
(* options (plus the -h/--help option every ArgumentParser adds), and one  *)
(* call of parse_args() on the invocation's argument list.                 *)
(*                                                                         *)
(* The six add_argument calls are the option table below.  parse_args()    *)
(* is modelled as the interpreter runs it (argparse of CPython 3.6-3.11,   *)
(* checked against the installed 3.11): defaults into the namespace, the   *)
(* scan that classifies every argument string as option ('O'), argument    *)
(* ('A') or '--' ('-'), the loop that consumes one option per iteration,   *)
(* the end of the list, and the final test for unrecognized arguments.     *)
(*                                                                         *)
(* Strings are TLA+ strings (Len, SubSeq and \o read them by character).   *)
(* Python values carry their type: [t |-> "int", v |-> 5].                 *)
(***************************************************************************)
EXTENDS Integers, Sequences, FiniteSets, TLC

VARIABLES argv, pc, namespace, arg_strings_pattern, option_string_indices,
          start_index, extras, seen_actions, outcome

vars == <<argv, pc, namespace, arg_strings_pattern, option_string_indices,
          start_index, extras, seen_actions, outcome>>

----------------------------------------------------------------------------
(* Bounds of the model.                                                    *)

\* Longest argument list drawn freely from Tokens (the Scenarios are longer).
MaxArgs == 2

----------------------------------------------------------------------------
(* Strings.                                                                *)

CharAt(s, i) == SubSeq(s, i, i)

StartsWith(s, p) == Len(p) <= Len(s) /\ SubSeq(s, 1, Len(p)) = p

\* The index of the first c in s from i on, 0 when there is none.
RECURSIVE FindChar(_, _, _)
FindChar(s, c, i) ==
    IF i > Len(s) THEN 0
    ELSE IF CharAt(s, i) = c THEN i
    ELSE FindChar(s, c, i + 1)

Digits == {"0", "1", "2", "3", "4", "5", "6", "7", "8", "9"}

DigitValue(c) ==
    CASE c = "0" -> 0 [] c = "1" -> 1 [] c = "2" -> 2 [] c = "3" -> 3
      [] c = "4" -> 4 [] c = "5" -> 5 [] c = "6" -> 6 [] c = "7" -> 7
      [] c = "8" -> 8 [] c = "9" -> 9

AllDigits(s) == \A i \in 1..Len(s) : CharAt(s, i) \in Digits

\* The number a string of decimal digits denotes, most significant first.
RECURSIVE DigitsValue(_, _)
DigitsValue(s, acc) ==
    IF s = "" THEN acc
    ELSE DigitsValue(SubSeq(s, 2, Len(s)), acc * 10 + DigitValue(CharAt(s, 1)))

----------------------------------------------------------------------------
(* Python values.                                                          *)

StrV(s) == [t |-> "str", v |-> s]
IntV(n) == [t |-> "int", v |-> n]
\* A float read from a decimal literal: mantissa / 10^scale, trailing zeros
\* of the fraction dropped, so that equal numbers are equal values.
RECURSIVE FloatV(_, _)
FloatV(m, k) ==
    IF k > 0 /\ m % 10 = 0 THEN FloatV(m \div 10, k - 1)
    ELSE [t |-> "float", v |-> <<m, k>>]
\* The empty list.
ListV == [t |-> "list", v |-> <<>>]

\* s without a leading sign, and the sign.
Unsigned(s) == IF s # "" /\ CharAt(s, 1) \in {"-", "+"} THEN SubSeq(s, 2, Len(s)) ELSE s
SignOf(s) == IF s # "" /\ CharAt(s, 1) = "-" THEN -1 ELSE 1

\* A conversion that takes positive integers only.
PyIntPositiveOnly(s) ==
    IF s # "" /\ AllDigits(s) /\ DigitsValue(s, 0) > 0
    THEN [ok |-> TRUE, value |-> IntV(DigitsValue(s, 0))]
    ELSE [ok |-> FALSE, value |-> ListV]

\* int(s) for an optional sign and decimal digits; anything else raises
\* ValueError (ok = FALSE).
PyInt(s) ==
    LET u == Unsigned(s)
    IN IF u # "" /\ AllDigits(u)
       THEN [ok |-> TRUE, value |-> IntV(SignOf(s) * DigitsValue(u, 0))]
       ELSE [ok |-> FALSE, value |-> ListV]

\* float(s) for an optional sign, digits and an optional fraction, with a
\* digit on at least one side of the point; anything else raises ValueError.
PyFloat(s) ==
    LET u == Unsigned(s)
        dot == FindChar(u, ".", 1)
        ip == IF dot = 0 THEN u ELSE SubSeq(u, 1, dot - 1)
        fp == IF dot = 0 THEN "" ELSE SubSeq(u, dot + 1, Len(u))
    IN IF AllDigits(ip) /\ AllDigits(fp) /\ ip \o fp # ""
       THEN [ok |-> TRUE,
             value |-> FloatV(SignOf(s) * DigitsValue(ip \o fp, 0), Len(fp))]
       ELSE [ok |-> FALSE, value |-> ListV]

----------------------------------------------------------------------------
(* The option table: the parser's actions, in the order they are added.    *)

\* ArgumentParser() adds the help option itself (add_help defaults to True):
\* no argument, no destination in the namespace.
HelpAction ==
    [dest |-> "help", option_strings |-> <<"-h", "--help">>, kind |-> "help",
     nargs |-> 0, type |-> "none", has_choices |-> FALSE, choices |-> {},
     has_default |-> FALSE, default |-> ListV]

ModeAction ==
    [dest |-> "mode", option_strings |-> <<"--mode", "-m">>, kind |-> "store",
     nargs |-> 1, type |-> "none", has_choices |-> TRUE, choices |-> {StrV("train")},
     has_default |-> TRUE, default |-> StrV("train")]

\* --batch-size declared without its short flag.
BatchSizeActionLongOnly ==
    [dest |-> "batch_size", option_strings |-> <<"--batch-size">>, kind |-> "store",
     nargs |-> 1, type |-> "int", has_choices |-> FALSE, choices |-> {},
     has_default |-> TRUE, default |-> IntV(10)]

BatchSizeAction ==
    [dest |-> "batch_size", option_strings |-> <<"--batch-size", "-b">>, kind |-> "store",
     nargs |-> 1, type |-> "int", has_choices |-> FALSE, choices |-> {},
     has_default |-> TRUE, default |-> IntV(10)]

EpochsAction ==
    [dest |-> "epochs", option_strings |-> <<"--epochs">>, kind |-> "store",
     nargs |-> 1, type |-> "int", has_choices |-> FALSE, choices |-> {},
     has_default |-> TRUE, default |-> IntV(20)]

LearningRateAction ==
    [dest |-> "learning_rate", option_strings |-> <<"--learning-rate", "-lr">>,
     kind |-> "store", nargs |-> 1, type |-> "float", has_choices |-> FALSE,
     choices |-> {}, has_default |-> TRUE, default |-> FloatV(1, 3)]

\* --workers with the default of --batch-size.
WorkersActionDefaultTen ==
    [dest |-> "workers", option_strings |-> <<"--workers">>, kind |-> "store",
     nargs |-> 1, type |-> "int", has_choices |-> FALSE, choices |-> {},
     has_default |-> TRUE, default |-> IntV(10)]

WorkersAction ==
    [dest |-> "workers", option_strings |-> <<"--workers">>, kind |-> "store",
     nargs |-> 1, type |-> "int", has_choices |-> FALSE, choices |-> {},
     has_default |-> TRUE, default |-> IntV(4)]

DeviceAction ==
    [dest |-> "device", option_strings |-> <<"--device">>, kind |-> "store",
     nargs |-> 1, type |-> "none", has_choices |-> FALSE, choices |-> {},
     has_default |-> TRUE, default |-> StrV("cuda")]

\* parser._actions
Actions ==
    <<HelpAction, ModeAction, BatchSizeAction, EpochsAction, LearningRateAction,
      WorkersAction, DeviceAction>>

\* The place of no action (an option string the parser does not know).
NoAction == 0

\* parser._option_string_actions, as the pairs <<option string, action index>>
\* in insertion order.
RECURSIVE OptionStringsFrom(_, _)
OptionStringsFrom(a, j) ==
    IF a > Len(Actions) THEN <<>>
    ELSE IF j > Len(Actions[a].option_strings) THEN OptionStringsFrom(a + 1, 1)
    ELSE <<<<Actions[a].option_strings[j], a>>>> \o OptionStringsFrom(a, j + 1)

OptionStringActions == OptionStringsFrom(1, 1)

IsOptionString(s) == \E i \in 1..Len(OptionStringActions) : OptionStringActions[i][1] = s

ActionOfOptionString(s) ==
    OptionStringActions[CHOOSE i \in 1..Len(OptionStringActions) :
                            OptionStringActions[i][1] = s][2]

PrefixChars == {"-"}

----------------------------------------------------------------------------
(* _parse_optional: what one argument string is.                           *)

OptionTuple(a, os, has, ex) ==
    [action |-> a, option_string |-> os, has_explicit |-> has, explicit_arg |-> ex]

\* _get_option_tuples with allow_abbrev off: a string that is no option
\* string itself matches nothing.
RECURSIVE GetOptionTuplesNoAbbrev(_, _)
GetOptionTuplesNoAbbrev(option_string, i) == <<>>

\* _get_option_tuples: every option string of the table that option_string
\* abbreviates (allow_abbrev is on by default), from entry i of the table on.
RECURSIVE GetOptionTuples(_, _)
GetOptionTuples(option_string, i) ==
    IF i > Len(OptionStringActions) THEN <<>>
    ELSE
      LET os == OptionStringActions[i][1]
          a == OptionStringActions[i][2]
          rest == GetOptionTuples(option_string, i + 1)
      IN IF CharAt(option_string, 2) \in PrefixChars
         THEN \* two prefix characters: split at the '=' only
           LET eq == FindChar(option_string, "=", 1)
               option_prefix == IF eq > 0 THEN SubSeq(option_string, 1, eq - 1)
                                ELSE option_string
               explicit_arg == IF eq > 0
                               THEN SubSeq(option_string, eq + 1, Len(option_string))
                               ELSE ""
           IN IF StartsWith(os, option_prefix)
              THEN <<OptionTuple(a, os, eq > 0, explicit_arg)>> \o rest
              ELSE rest
         ELSE \* one prefix character: the argument may be glued to the option
           LET short_option_prefix == SubSeq(option_string, 1, 2)
               short_explicit_arg == SubSeq(option_string, 3, Len(option_string))
           IN IF os = short_option_prefix
              THEN <<OptionTuple(a, os, TRUE, short_explicit_arg)>> \o rest
              ELSE IF StartsWith(os, option_string)
              THEN <<OptionTuple(a, os, FALSE, "")>> \o rest
              ELSE rest

\* _negative_number_matcher: '^-\d+$|^-\d*\.\d+$'
NegativeNumberMatch(s) ==
    /\ StartsWith(s, "-")
    /\ LET u == SubSeq(s, 2, Len(s))
           dot == FindChar(u, ".", 1)
       IN \/ u # "" /\ AllDigits(u)
          \/ /\ dot > 0
             /\ AllDigits(SubSeq(u, 1, dot - 1))
             /\ dot < Len(u)
             /\ AllDigits(SubSeq(u, dot + 1, Len(u)))

\* No option string of the table looks like a negative number.
HasNegativeNumberOptionals ==
    \E i \in 1..Len(OptionStringActions) : NegativeNumberMatch(OptionStringActions[i][1])

\* _parse_optional: "positional" (None), an option tuple (its action NoAction
\* when the parser has no such option), or "ambiguous" (self.error).
ParseOptional(arg_string) ==
    IF arg_string = "" THEN [kind |-> "positional"]
    ELSE IF CharAt(arg_string, 1) \notin PrefixChars THEN [kind |-> "positional"]
    ELSE IF IsOptionString(arg_string)
    THEN [kind |-> "option",
          tuple |-> OptionTuple(ActionOfOptionString(arg_string), arg_string, FALSE, "")]
    ELSE IF Len(arg_string) = 1 THEN [kind |-> "positional"]
    ELSE
      LET eq == FindChar(arg_string, "=", 1)
          before == SubSeq(arg_string, 1, eq - 1)
      IN IF eq > 0 /\ IsOptionString(before)
         THEN [kind |-> "option",
               tuple |-> OptionTuple(ActionOfOptionString(before), before, TRUE,
                                     SubSeq(arg_string, eq + 1, Len(arg_string)))]
         ELSE
           LET option_tuples == GetOptionTuples(arg_string, 1)
           IN IF Len(option_tuples) > 1 THEN [kind |-> "ambiguous"]
              ELSE IF Len(option_tuples) = 1
              THEN [kind |-> "option", tuple |-> option_tuples[1]]
              ELSE IF NegativeNumberMatch(arg_string) /\ ~HasNegativeNumberOptionals
              THEN [kind |-> "positional"]
              ELSE IF FindChar(arg_string, " ", 1) > 0 THEN [kind |-> "positional"]
              ELSE [kind |-> "option",
                    tuple |-> OptionTuple(NoAction, arg_string, FALSE, "")]

----------------------------------------------------------------------------
(* The namespace and the ways the call ends.                               *)

\* Namespace(): no attribute yet.
EmptyNamespace == <<>>

HasAttr(ns, dest) == dest \in DOMAIN ns

SetAttr(ns, dest, value) ==
    [d \in (DOMAIN ns) \cup {dest} |-> IF d = dest THEN value ELSE ns[d]]

Running == [kind |-> "running"]

\* parser.exit(status, message): sys.exit(status) after the message is printed.
Exit(status, message) == [kind |-> "exit", status |-> status, message |-> message]

\* Help that ends the process as an error does, with status 2.
ExitHelpAsError == Exit(2, "help")

\* _HelpAction.__call__: print_help() to stdout, then parser.exit(), status 0.
ExitHelp == Exit(0, "help")

\* parser.error(message): usage and the message to stderr, then exit(2).
ExitError == Exit(2, "usage+error")

\* get_arguments returns what parse_args returns.
Returned(ns) == [kind |-> "returned", config |-> ns]

----------------------------------------------------------------------------
(* parse_known_args: the defaults.                                         *)

\* Every action with a destination and a default (the help action has
\* default SUPPRESS) sets its attribute unless the namespace has it.
RECURSIVE AddActionDefaults(_, _)
AddActionDefaults(ns, a) ==
    IF a > Len(Actions) THEN ns
    ELSE IF Actions[a].has_default /\ ~HasAttr(ns, Actions[a].dest)
    THEN AddActionDefaults(SetAttr(ns, Actions[a].dest, Actions[a].default), a + 1)
    ELSE AddActionDefaults(ns, a + 1)

----------------------------------------------------------------------------
(* _parse_known_args: the scan of the argument strings.                    *)

\* From argument i on: the pattern ('O', 'A', '-'), the option tuple of every
\* index that holds an option, and whether _parse_optional called error().
\* After '--' every argument string is an argument.
RECURSIVE ScanArgStrings(_, _, _)
ScanArgStrings(arg_strings, i, after_dashes) ==
    IF i > Len(arg_strings)
    THEN [pattern |-> "", indices |-> <<>>, error |-> FALSE]
    ELSE IF after_dashes
    THEN LET r == ScanArgStrings(arg_strings, i + 1, TRUE)
         IN [r EXCEPT !.pattern = "A" \o @]
    ELSE IF arg_strings[i] = "--"
    THEN LET r == ScanArgStrings(arg_strings, i + 1, TRUE)
         IN [r EXCEPT !.pattern = "-" \o @]
    ELSE
      LET o == ParseOptional(arg_strings[i])
          r == ScanArgStrings(arg_strings, i + 1, FALSE)
      IN IF o.kind = "ambiguous"
         THEN [pattern |-> "", indices |-> <<>>, error |-> TRUE]
         ELSE IF o.kind = "positional"
         THEN [r EXCEPT !.pattern = "A" \o @]
         ELSE [r EXCEPT !.pattern = "O" \o @, !.indices = (i :> o.tuple) @@ @]

\* max(option_string_indices), or the index before the first when empty.
MaxOptionStringIndex(indices) ==
    IF DOMAIN indices = {} THEN 0
    ELSE CHOOSE i \in DOMAIN indices : \A j \in DOMAIN indices : j <= i

----------------------------------------------------------------------------
(* Values of one option: _match_argument, _get_value, _check_value,        *)
(* _get_values.                                                            *)

\* _match_argument for an option: nargs None is the pattern '(A)' (one
\* argument, and '--' never counts for an option), nargs 0 is '()'.  The
\* number of arguments matched, or -1 for ArgumentError.
MatchArgument(a, pattern) ==
    IF Actions[a].nargs = 0 THEN 0
    ELSE IF StartsWith(pattern, "A") THEN 1
    ELSE -1

\* _get_value: the action's type applied to the string.
GetValue(a, arg_string) ==
    CASE Actions[a].type = "int" -> PyInt(arg_string)
      [] Actions[a].type = "float" -> PyFloat(arg_string)
      [] OTHER -> [ok |-> TRUE, value |-> StrV(arg_string)]

\* _check_value: TRUE unless the action has choices and value is none of them.
CheckValue(a, value) == ~Actions[a].has_choices \/ value \in Actions[a].choices

\* arg_strings.remove('--'): without its first '--'.
RECURSIVE RemoveDashes(_)
RemoveDashes(arg_strings) ==
    IF arg_strings = <<>> THEN <<>>
    ELSE IF Head(arg_strings) = "--" THEN Tail(arg_strings)
    ELSE <<Head(arg_strings)>> \o RemoveDashes(Tail(arg_strings))

\* _get_values: the first '--' is stripped from the strings; exactly one
\* string left for a one-argument action is converted and checked against
\* the choices; any other number of strings gives the list of the converted
\* strings, which is the empty list here (an action never gets two).
GetValues(a, arg_strings) ==
    LET stripped == RemoveDashes(arg_strings)
    IN IF Len(stripped) = 1 /\ Actions[a].nargs = 1
       THEN LET r == GetValue(a, stripped[1])
            IN IF r.ok /\ CheckValue(a, r.value) THEN r
               ELSE [ok |-> FALSE, value |-> ListV]
       ELSE [ok |-> TRUE, value |-> ListV]

----------------------------------------------------------------------------
(* consume_optional and take_action.                                       *)

ActionTuple(a, args, os) == [action |-> a, args |-> args, option_string |-> os]

\* The while loop of consume_optional for the option at start: "extra" when
\* the parser has no such option, "error" for ArgumentError, else the actions
\* to take with their argument strings and the index after them.  A
\* single-dash option that takes no argument hands the rest of its string on
\* as further single-dash options (-hb3 is -h -b3).
RECURSIVE CollectActionTuples(_, _, _, _, _)
CollectActionTuples(arg_strings, pattern, start, t, action_tuples) ==
    IF t.action = NoAction THEN [kind |-> "extra"]
    ELSE IF t.has_explicit
    THEN
      LET arg_count == MatchArgument(t.action, "A")
      IN IF /\ arg_count = 0
            /\ CharAt(t.option_string, 2) \notin PrefixChars
            /\ t.explicit_arg # ""
         THEN
           LET option_string == CharAt(t.option_string, 1) \o CharAt(t.explicit_arg, 1)
               new_explicit_arg == SubSeq(t.explicit_arg, 2, Len(t.explicit_arg))
           IN IF IsOptionString(option_string)
              THEN CollectActionTuples(arg_strings, pattern, start,
                       OptionTuple(ActionOfOptionString(option_string), option_string,
                                   new_explicit_arg # "", new_explicit_arg),
                       Append(action_tuples, ActionTuple(t.action, <<>>, t.option_string)))
              ELSE [kind |-> "error"]
         ELSE IF arg_count = 1
         THEN [kind |-> "ok", stop |-> start + 1,
               tuples |-> Append(action_tuples,
                                 ActionTuple(t.action, <<t.explicit_arg>>, t.option_string))]
         ELSE [kind |-> "error"]
    ELSE
      LET selected_patterns == SubSeq(pattern, start + 1, Len(pattern))
          arg_count == MatchArgument(t.action, selected_patterns)
      IN IF arg_count < 0 THEN [kind |-> "error"]
         ELSE [kind |-> "ok", stop |-> start + 1 + arg_count,
               tuples |-> Append(action_tuples,
                                 ActionTuple(t.action,
                                             SubSeq(arg_strings, start + 1, start + arg_count),
                                             t.option_string))]

\* _StoreAction.__call__: setattr(namespace, self.dest, values).
StoreAction(ns, a, value) == SetAttr(ns, Actions[a].dest, value)

\* take_action for each tuple in turn: the values are converted and checked
\* (ArgumentError ends the call through parser.error), then the action is
\* called: help prints and exits, store sets its attribute.
RECURSIVE TakeActions(_, _, _, _)
TakeActions(tuples, i, ns, seen) ==
    IF i > Len(tuples) THEN [namespace |-> ns, seen_actions |-> seen, outcome |-> Running]
    ELSE
      LET a == tuples[i].action
          r == GetValues(a, tuples[i].args)
      IN IF ~r.ok
         THEN [namespace |-> ns, seen_actions |-> seen \cup {a}, outcome |-> ExitError]
         ELSE IF Actions[a].kind = "help"
         THEN [namespace |-> ns, seen_actions |-> seen \cup {a}, outcome |-> ExitHelp]
         ELSE TakeActions(tuples, i + 1, StoreAction(ns, a, r.value), seen \cup {a})

----------------------------------------------------------------------------
(* The run of get_arguments as a record, and its steps.                    *)

\* The state get_arguments is in before parse_args is called.
InitialRun ==
    [pc |-> "defaults", namespace |-> EmptyNamespace, arg_strings_pattern |-> "",
     option_string_indices |-> <<>>, start_index |-> 1, extras |-> <<>>,
     seen_actions |-> {}, outcome |-> Running]

\* parse_known_args up to the call of _parse_known_args.
AddDefaults(r) ==
    [r EXCEPT !.pc = "scan", !.namespace = AddActionDefaults(r.namespace, 1)]

\* The scan; parser.error ends the call when an option string is ambiguous.
Scan(arg_strings, r) ==
    LET s == ScanArgStrings(arg_strings, 1, FALSE)
    IN IF s.error THEN [r EXCEPT !.pc = "done", !.outcome = ExitError]
       ELSE [r EXCEPT !.pc = "loop", !.arg_strings_pattern = s.pattern,
                      !.option_string_indices = s.indices]

\* consume_positionals: the parser has no positional argument, so nothing is
\* consumed and the index stays.
ConsumePositionals(start) == start

\* One iteration of "while start_index <= max_option_string_index": the
\* strings before the next option are extras, then the option is consumed.
LoopIteration(arg_strings, r) ==
    LET indices == r.option_string_indices
        next_option_string_index ==
            CHOOSE i \in DOMAIN indices :
                /\ i >= r.start_index
                /\ \A j \in DOMAIN indices : j >= r.start_index => i <= j
        positionals_end_index == ConsumePositionals(r.start_index)
        skipped == SubSeq(arg_strings, positionals_end_index, next_option_string_index - 1)
        extras1 == r.extras \o skipped
        c == CollectActionTuples(arg_strings, r.arg_strings_pattern,
                                 next_option_string_index,
                                 indices[next_option_string_index], <<>>)
    IN IF c.kind = "extra"
       THEN [r EXCEPT !.extras = Append(extras1, arg_strings[next_option_string_index]),
                      !.start_index = next_option_string_index + 1]
       ELSE IF c.kind = "error"
       THEN [r EXCEPT !.extras = extras1, !.pc = "done", !.outcome = ExitError]
       ELSE
         LET t == TakeActions(c.tuples, 1, r.namespace, r.seen_actions)
         IN [r EXCEPT !.extras = extras1, !.start_index = c.stop,
                      !.namespace = t.namespace, !.seen_actions = t.seen_actions,
                      !.outcome = t.outcome,
                      !.pc = IF t.outcome = Running THEN "loop" ELSE "done"]

\* An action that was not seen and whose default is a string has the default
\* converted by its type now (mode and device: no type, the string itself).
RECURSIVE ConvertDefaults(_, _, _)
ConvertDefaults(ns, seen, a) ==
    IF a > Len(Actions) THEN ns
    ELSE IF /\ a \notin seen
            /\ Actions[a].has_default
            /\ Actions[a].default.t = "str"
            /\ HasAttr(ns, Actions[a].dest)
            /\ ns[Actions[a].dest] = Actions[a].default
    THEN ConvertDefaults(SetAttr(ns, Actions[a].dest,
                                 GetValue(a, Actions[a].default.v).value), seen, a + 1)
    ELSE ConvertDefaults(ns, seen, a + 1)

\* After the loop: what follows the last option is extras, and the defaults
\* of the unseen actions are converted; _parse_known_args returns.
EndOfArgStrings(arg_strings, r) ==
    LET stop_index == ConsumePositionals(r.start_index)
    IN [r EXCEPT !.pc = "parse_args",
                 !.extras = @ \o SubSeq(arg_strings, stop_index, Len(arg_strings)),
                 !.namespace = ConvertDefaults(r.namespace, r.seen_actions, 1)]

\* parse_args as parse_known_args: the extras are dropped.
ParseArgsIgnoreExtras(r) ==
    [r EXCEPT !.pc = "done", !.outcome = Returned(r.namespace)]

\* parse_args: unrecognized arguments are an error; else the namespace is
\* returned, and get_arguments returns it.
ParseArgs(r) ==
    IF r.extras # <<>>
    THEN [r EXCEPT !.pc = "done", !.outcome = ExitError]
    ELSE [r EXCEPT !.pc = "done", !.outcome = Returned(r.namespace)]

\* The next step of a run that has not ended.
StepOf(arg_strings, r) ==
    CASE r.pc = "defaults" -> AddDefaults(r)
      [] r.pc = "scan" -> Scan(arg_strings, r)
      [] r.pc = "loop" /\ r.start_index <= MaxOptionStringIndex(r.option_string_indices)
           -> LoopIteration(arg_strings, r)
      [] r.pc = "loop" /\ r.start_index > MaxOptionStringIndex(r.option_string_indices)
           -> EndOfArgStrings(arg_strings, r)
      [] r.pc = "parse_args" -> ParseArgs(r)

\* The whole call on an argument list: how it ends.
RECURSIVE RunFrom(_, _)
RunFrom(arg_strings, r) ==
    IF r.pc = "done" THEN r.outcome ELSE RunFrom(arg_strings, StepOf(arg_strings, r))

GetArguments(arg_strings) == RunFrom(arg_strings, InitialRun)

----------------------------------------------------------------------------
(* The invocations checked, and the state machine.                         *)

\* Argument strings the lists are drawn from: every option string of the
\* table, abbreviations, unknown flags, values glued to their option, values
\* of every type, and the '--' separator.
Tokens ==
    {"--mode", "-m", "--batch-size", "-b", "--epochs", "--learning-rate", "-lr",
     "--workers", "--device", "-h", "--help",
     "--dev", "--epo", "--work",
     "--foo", "-e",
     "--device=cpu", "-b32", "--mode=--", "--epochs=--",
     "train", "eval", "cpu", "7", "0", "-5", "0.5", "abc",
     "--"}

\* Longer invocations: the end-to-end scenarios, one pair for each kind of
\* option and value, and repeated options.
Scenarios ==
    {<<"-b", "32", "--epochs", "5", "-lr", "0.01">>,
     <<"--batch-size", "32", "--epochs", "5", "--learning-rate", "0.01">>,
     <<"--device", "cpu">>,
     <<"--mode", "train">>,
     <<"--mode", "eval">>,
     <<"-m", "eval">>,
     <<"--epochs", "abc">>,
     <<"--workers", "-5">>,
     <<"-lr", "0.5">>,
     <<"--dev", "cpu">>,
     <<"--epo", "5">>,
     <<"--work", "2">>,
     <<"-w", "2">>,
     <<"-d", "cpu">>,
     <<"--epochs", "5", "--epochs", "7">>,
     <<"-b", "5", "--batch-size", "7">>,
     <<"--mode", "eval", "--mode", "train">>}

\* s with t put in after its first k strings.
Insert(s, k, t) == SubSeq(s, 1, k) \o <<t>> \o SubSeq(s, k + 1, Len(s))

\* Every list of at most MaxArgs tokens, every scenario, and every scenario
\* with one more token anywhere in it.
ArgLists ==
    (UNION {[1..n -> Tokens] : n \in 0..MaxArgs})
    \cup Scenarios
    \cup UNION {{Insert(s, k, t) : k \in 0..Len(s), t \in Tokens} : s \in Scenarios}

Cur ==
    [pc |-> pc, namespace |-> namespace, arg_strings_pattern |-> arg_strings_pattern,
     option_string_indices |-> option_string_indices, start_index |-> start_index,
     extras |-> extras, seen_actions |-> seen_actions, outcome |-> outcome]

Becomes(r) ==
    /\ pc' = r.pc
    /\ namespace' = r.namespace
    /\ arg_strings_pattern' = r.arg_strings_pattern
    /\ option_string_indices' = r.option_string_indices
    /\ start_index' = r.start_index
    /\ extras' = r.extras
    /\ seen_actions' = r.seen_actions
    /\ outcome' = r.outcome
    /\ UNCHANGED argv

\* The process starts with its argument list; get_arguments has built the
\* parser and is about to call parse_args.
Init ==
    /\ argv \in ArgLists
    /\ pc = InitialRun.pc
    /\ namespace = InitialRun.namespace
    /\ arg_strings_pattern = InitialRun.arg_strings_pattern
    /\ option_string_indices = InitialRun.option_string_indices
    /\ start_index = InitialRun.start_index
    /\ extras = InitialRun.extras
    /\ seen_actions = InitialRun.seen_actions
    /\ outcome = InitialRun.outcome

SetDefaults == pc = "defaults" /\ Becomes(AddDefaults(Cur))

ScanArguments == pc = "scan" /\ Becomes(Scan(argv, Cur))

ConsumeOptional ==
    /\ pc = "loop"
    /\ start_index <= MaxOptionStringIndex(option_string_indices)
    /\ Becomes(LoopIteration(argv, Cur))

FinishArguments ==
    /\ pc = "loop"
    /\ start_index > MaxOptionStringIndex(option_string_indices)
    /\ Becomes(EndOfArgStrings(argv, Cur))

ReturnOrReject == pc = "parse_args" /\ Becomes(ParseArgs(Cur))

Next ==
    \/ SetDefaults
    \/ ScanArguments
    \/ ConsumeOptional
    \/ FinishArguments
    \/ ReturnOrReject

Spec == Init /\ [][Next]_vars

----------------------------------------------------------------------------
(* The documented interface (the CLI table and the data model), in which   *)
(* the properties below are stated.                                        *)

Documented ==
    {[dest |-> "mode", long |-> "--mode", short |-> "-m", type |-> "enum"],
     [dest |-> "batch_size", long |-> "--batch-size", short |-> "-b", type |-> "int"],
     [dest |-> "epochs", long |-> "--epochs", short |-> "", type |-> "int"],
     [dest |-> "learning_rate", long |-> "--learning-rate", short |-> "-lr", type |-> "float"],
     [dest |-> "workers", long |-> "--workers", short |-> "", type |-> "int"],
     [dest |-> "device", long |-> "--device", short |-> "", type |-> "string"]}

DocumentedDefault ==
    [mode |-> StrV("train"), batch_size |-> IntV(10), epochs |-> IntV(20),
     learning_rate |-> FloatV(1, 3), workers |-> IntV(4), device |-> StrV("cuda")]

\* The integer each integer literal among the values denotes.
IntLiterals == {"7", "0", "-5", "32", "5", "2"}
Denoted(n) ==
    CASE n = "7" -> 7 [] n = "0" -> 0 [] n = "-5" -> -5
      [] n = "32" -> 32 [] n = "5" -> 5 [] n = "2" -> 2
FloatLiterals == IntLiterals \cup {"0.5", "0.01"}

HasEq(tok) == FindChar(tok, "=", 1) > 0
FlagPart(tok) == IF HasEq(tok) THEN SubSeq(tok, 1, FindChar(tok, "=", 1) - 1) ELSE tok

\* A string that is written as a flag: a dash and more, no negative number,
\* no space in it.
LooksLikeFlag(tok) ==
    /\ Len(tok) >= 2 /\ StartsWith(tok, "-")
    /\ ~NegativeNumberMatch(tok)
    /\ FindChar(tok, " ", 1) = 0

\* f is option o's long or short flag, or an abbreviation of one.
NamesFlag(f, o) ==
    \/ f = o.long
    \/ o.short # "" /\ f = o.short
    \/ Len(f) > 2 /\ StartsWith(f, "--") /\ StartsWith(o.long, f)
    \/ o.short # "" /\ Len(f) >= 2 /\ StartsWith(o.short, f)

\* The one-letter short flag with its value glued on (-b32).
ShortGlued(tok, o) ==
    Len(o.short) = 2 /\ Len(tok) > 2 /\ StartsWith(tok, o.short) /\ ~HasEq(tok)

\* tok is a flag for option o, in any of its forms.
Mentions(tok, o) == NamesFlag(FlagPart(tok), o) \/ ShortGlued(tok, o)

HelpRequest(tok) == tok = "-h" \/ (Len(tok) > 2 /\ StartsWith("--help", tok))

\* A flag of no documented option, and no help request.
UnknownFlag(tok) ==
    /\ LooksLikeFlag(tok)
    /\ tok # "--"
    /\ ~StartsWith(tok, "-h") /\ ~StartsWith("--help", FlagPart(tok))
    /\ \A o \in Documented : ~Mentions(tok, o)

\* The value the flag at place i of the list is given: glued to it, or the
\* next string unless that is written as a flag; has = FALSE when missing.
SuppliedValue(args, i) ==
    LET tok == args[i]
    IN IF HasEq(tok)
       THEN [has |-> TRUE, v |-> SubSeq(tok, FindChar(tok, "=", 1) + 1, Len(tok))]
       ELSE IF \E o \in Documented : ShortGlued(tok, o)
       THEN [has |-> TRUE, v |-> SubSeq(tok, 3, Len(tok))]
       ELSE IF i < Len(args) /\ ~LooksLikeFlag(args[i + 1]) /\ args[i + 1] # "--"
       THEN [has |-> TRUE, v |-> args[i + 1]]
       ELSE [has |-> FALSE, v |-> ""]

\* v is a value of option o's declared type (and, for mode, of its set).
ValidFor(o, v) ==
    CASE o.type = "enum" -> v = "train"
      [] o.type = "int" -> v \in IntLiterals
      [] o.type = "float" -> v \in FloatLiterals
      [] OTHER -> TRUE

\* The Python value the valid string v is for option o.
ValueFor(o, v) ==
    CASE o.type = "int" -> IntV(Denoted(v))
      [] o.type = "float" ->
           IF v \in IntLiterals THEN FloatV(Denoted(v), 0)
           ELSE IF v = "0.5" THEN FloatV(5, 1) ELSE FloatV(1, 2)
      [] OTHER -> StrV(v)

\* The places of the list where option o is supplied.
Occurrences(args, o) == {i \in 1..Len(args) : Mentions(args[i], o)}

\* Option o is supplied at place i with a valid value.
ValidOccurrence(args, i, o) ==
    /\ Mentions(args[i], o)
    /\ SuppliedValue(args, i).has
    /\ ValidFor(o, SuppliedValue(args, i).v)

\* The place after the occurrence at i (its value included).
AfterOccurrence(args, i) ==
    IF HasEq(args[i]) \/ (\E o \in Documented : ShortGlued(args[i], o)) THEN i + 1 ELSE i + 2

\* The list from place i on is a run of valid occurrences of options, and
\* (with unknown_ok) of unknown flags.
RECURSIVE ValidFrom(_, _, _)
ValidFrom(args, i, unknown_ok) ==
    \/ i > Len(args)
    \/ /\ i <= Len(args)
       /\ (\E o \in Documented : ValidOccurrence(args, i, o))
       /\ ValidFrom(args, AfterOccurrence(args, i), unknown_ok)
    \/ /\ i <= Len(args)
       /\ unknown_ok
       /\ UnknownFlag(args[i])
       /\ ValidFrom(args, i + 1, unknown_ok)

\* Neither a help request nor an invalid or unknown argument in the list.
AllValid(args) == ValidFrom(args, 1, FALSE)

HelpIn(args) == \E i \in 1..Len(args) : HelpRequest(args[i])

Done == pc = "done"
ReturnedConfig == outcome.kind = "returned"
Terminated == outcome.kind = "exit"
NonZeroExit == outcome.kind = "exit" /\ outcome.status # 0
\* The help message was written and the process ended with status 0.
HelpShown == outcome = [kind |-> "exit", status |-> 0, message |-> "help"]

----------------------------------------------------------------------------
(* The properties.                                                         *)

Last(S) == CHOOSE i \in S : \A j \in S : j <= i

\* C1: in every configuration get_arguments returns, an option for which the
\* list holds no flag has its documented default, whatever other flags are
\* there; the empty list gives exactly the defaults, and "--device cpu" alone
\* changes only device.
C1_OmittedOptionsDefault ==
    /\ Done /\ ReturnedConfig =>
         \A o \in Documented :
             Occurrences(argv, o) = {} =>
                 /\ HasAttr(outcome.config, o.dest)
                 /\ outcome.config[o.dest] = DocumentedDefault[o.dest]
    /\ Done /\ argv = <<>> => outcome = Returned(DocumentedDefault)
    /\ Done /\ argv = <<"--device", "cpu">> =>
         outcome = Returned([DocumentedDefault EXCEPT !.device = StrV("cpu")])

\* A returned configuration in which one option was supplied and changed, and
\* another was omitted, beside a third argument.
C1_Witness ==
    /\ Done /\ ReturnedConfig /\ Len(argv) >= 3
    /\ \E o \in Documented :
           /\ Occurrences(argv, o) # {}
           /\ ValidOccurrence(argv, Last(Occurrences(argv, o)), o)
           /\ outcome.config[o.dest] # DocumentedDefault[o.dest]
    /\ \E o \in Documented : Occurrences(argv, o) = {}

\* C2: --mode (or -m) with a value other than train ends the process with a
\* non-zero exit status and no configuration, whatever else is in the list.
\* Stated for the lists without a help request, where exit status 0 is not
\* to be had from help.
C2_BadModeRejected ==
    Done /\ ~HelpIn(argv) =>
        \A o \in Documented : \A i \in Occurrences(argv, o) :
            o.dest = "mode" /\ SuppliedValue(argv, i).has /\ SuppliedValue(argv, i).v # "train"
                => NonZeroExit

\* C3, as claimed: an unknown flag ends the process with a non-zero exit
\* status, every other argument being valid.
C3_AsClaimed ==
    Done /\ (\E i \in 1..Len(argv) : UnknownFlag(argv[i])) => NonZeroExit

\* C3, amended: an unknown flag ends the process without a configuration;
\* the exit status is non-zero unless the list also holds a help request
\* (help is acted on where it stands, unknown flags are reported at the end).
C3_UnknownFlagRejected ==
    Done /\ (\E i \in 1..Len(argv) : UnknownFlag(argv[i])) =>
        /\ Terminated
        /\ ~HelpIn(argv) => NonZeroExit

\* An unknown flag beside a help request: the exit status is 0.
C3_Witness ==
    /\ Done /\ Terminated /\ outcome.status = 0
    /\ \E i \in 1..Len(argv) : UnknownFlag(argv[i])

\* The flags of the numeric options, with a value that is not of their type
\* or with none.
NumericValueBad(args) ==
    \E o \in Documented : \E i \in Occurrences(args, o) :
        /\ o.type \in {"int", "float"}
        /\ ~ValidOccurrence(args, i, o)

\* C4: a value that cannot be converted to the type of its integer or float
\* option (or a missing one) ends the process with a non-zero exit status, and
\* no configuration is produced.  Stated for the lists without a help request.
C4_BadNumberRejected ==
    Done /\ ~HelpIn(argv) /\ NumericValueBad(argv) => NonZeroExit

\* C5: an integer flag with an integer literal, zero and negative ones
\* included, is not rejected, and the field of a returned configuration is
\* the integer the literal of the option's last occurrence denotes.
C5_IntegersAccepted ==
    Done =>
        \A o \in {d \in Documented : d.type = "int"} :
            /\ \A n \in IntLiterals :
                   (argv = <<o.long, n>> \/ (o.short # "" /\ argv = <<o.short, n>>))
                       => ReturnedConfig
            /\ ReturnedConfig /\ Occurrences(argv, o) # {}
               /\ ValidOccurrence(argv, Last(Occurrences(argv, o)), o)
                   => outcome.config[o.dest] =
                        IntV(Denoted(SuppliedValue(argv, Last(Occurrences(argv, o))).v))

\* A returned configuration with an integer field that is zero or negative,
\* as supplied.
C5_Witness ==
    /\ Done /\ ReturnedConfig
    /\ \E o \in {d \in Documented : d.type = "int"} :
           /\ Occurrences(argv, o) # {}
           /\ ValidOccurrence(argv, Last(Occurrences(argv, o)), o)
           /\ Denoted(SuppliedValue(argv, Last(Occurrences(argv, o))).v) <= 0
           /\ outcome.config[o.dest].v <= 0

\* C6: a returned configuration has all six fields, and its mode is train.
C6_FullyPopulated ==
    Done /\ ReturnedConfig =>
        /\ DOMAIN outcome.config = {o.dest : o \in Documented}
        /\ outcome.config["mode"] = StrV("train")

LongForm(tok) ==
    CASE tok = "-m" -> "--mode"
      [] tok = "-b" -> "--batch-size"
      [] tok = "-lr" -> "--learning-rate"
      [] OTHER -> tok

Longhand(args) == [i \in 1..Len(args) |-> LongForm(args[i])]

\* C8: a list ends as the list with -m, -b and -lr written --mode,
\* --batch-size and --learning-rate ends (the same configuration or the same
\* termination); "-b 32 --epochs 5 -lr 0.01" gives batch_size 32, epochs 5,
\* learning_rate 0.01 and the other defaults; epochs, workers and device have
\* no short flag.
C8_ShortAsLong ==
    Done =>
        /\ outcome = GetArguments(Longhand(argv))
        /\ argv = <<"-b", "32", "--epochs", "5", "-lr", "0.01">> =>
               outcome = Returned([DocumentedDefault EXCEPT !.batch_size = IntV(32),
                                                            !.epochs = IntV(5),
                                                            !.learning_rate = FloatV(1, 2)])
        /\ (\E i \in 1..Len(argv) : argv[i] \in {"-e", "-w", "-d"}) => ~ReturnedConfig

\* A configuration returned for a list in which a short flag set its field.
C8_Witness ==
    /\ Done /\ ReturnedConfig
    /\ \E i \in 1..Len(argv) : argv[i] \in {"-m", "-b", "-lr"}
    /\ \E o \in Documented : outcome.config[o.dest] # DocumentedDefault[o.dest]

\* C9: an option supplied more than once with every occurrence valid does not
\* fail, its field is the value of the last occurrence and the other fields
\* are unaffected; and an invalid occurrence ends the process even when a
\* later occurrence is valid.
C9_LastOccurrenceWins ==
    Done =>
        /\ AllValid(argv) =>
               /\ ReturnedConfig
               /\ \A o \in Documented :
                      outcome.config[o.dest] =
                          IF Occurrences(argv, o) = {} THEN DocumentedDefault[o.dest]
                          ELSE ValueFor(o, SuppliedValue(argv, Last(Occurrences(argv, o))).v)
        /\ \A o \in Documented : \A i, j \in Occurrences(argv, o) :
               i < j /\ ~ValidOccurrence(argv, i, o) /\ ValidOccurrence(argv, j, o)
                   => Terminated

DeclaredLong ==
    {"--mode", "--batch-size", "--epochs", "--learning-rate", "--workers", "--device",
     "--help"}

\* A long flag not spelled in full.
Abbreviated(tok) ==
    Len(tok) > 2 /\ StartsWith(tok, "--") /\ ~HasEq(tok) /\ tok \notin DeclaredLong

\* The declared long flags tok is a prefix of.
Completions(tok) == {f \in DeclaredLong : StartsWith(f, tok)}

SpelledOut(tok) ==
    IF Abbreviated(tok) /\ Cardinality(Completions(tok)) = 1
    THEN CHOOSE f \in Completions(tok) : TRUE
    ELSE tok

InFull(args) == [i \in 1..Len(args) |-> SpelledOut(args[i])]

\* C10: a long flag that is a proper prefix of exactly one declared long flag
\* acts as that flag spelled in full ("--dev cpu", "--epo 5", "--work 2" set
\* device, epochs, workers); a long flag that is a prefix of none, or of more
\* than one, ends the process.
C10_AbbreviationsAccepted ==
    Done =>
        /\ outcome = GetArguments(InFull(argv))
        /\ argv = <<"--dev", "cpu">> =>
               outcome = Returned([DocumentedDefault EXCEPT !.device = StrV("cpu")])
        /\ argv = <<"--epo", "5">> =>
               outcome = Returned([DocumentedDefault EXCEPT !.epochs = IntV(5)])
        /\ argv = <<"--work", "2">> =>
               outcome = Returned([DocumentedDefault EXCEPT !.workers = IntV(2)])
        /\ (\E i \in 1..Len(argv) :
                /\ StartsWith(argv[i], "--") /\ ~HasEq(argv[i])
                /\ FindChar(argv[i], " ", 1) = 0
                /\ Cardinality(Completions(argv[i])) # 1)
             => Terminated

\* A configuration returned for a list with an abbreviated flag, whose field
\* is set.
C10_Witness ==
    /\ Done /\ ReturnedConfig
    /\ \E i \in 1..Len(argv) : Abbreviated(argv[i]) /\ Cardinality(Completions(argv[i])) = 1
    /\ \E o \in Documented :
           /\ \E i \in Occurrences(argv, o) : Abbreviated(argv[i])
           /\ outcome.config[o.dest] # DocumentedDefault[o.dest]

====
